---- MODULE Spec2Model ----
(***************************************************************************)
(* Model of `atm silence add` (cli/silence_add.go): the handler            *)
(* silenceAddCmd.add turns the command's arguments into one silence and    *)
(* posts it once, once for a tenant, or once per tenant of a tenant file.  *)
(*                                                                         *)
(* Strings the code parses are modelled by what the parser reads:          *)
(*   - a matcher argument is a sequence of one-character strings;          *)
(*   - an RFC3339 time string is <<>> for "", <<local, offset>> for a      *)
(*     well-formed time (milliseconds; instant = local - offset) and any   *)
(*     other tuple for a malformed one;                                    *)
(*   - a duration string is <<>> for "", <<n, unit>> for "<n><unit>",      *)
(*     <<0, "">> for the bare "0".                                         *)
(* Instants and durations are integers, in milliseconds.                   *)
(***************************************************************************)
EXTENDS Integers, Sequences, FiniteSets, TLC

\* Longest matcher argument list, longest tenant file (in lines).
MaxMatchers == 2
MaxTenants == 2

(***************************************************************************)
(* compat.Matcher(s, "cli"): the matcher parser of the alertmanager        *)
(* library, as called at silence_add.go:109 and :117.  The expression is   *)
(* <name><op><value> with op one of =~ = != !~ (tried in that order), the  *)
(* value optionally double-quoted, with \" \\ \n escapes.                  *)
(***************************************************************************)
QUOTE == "\""
BACKSLASH == "\\"

NameChars == {"a", "b", "e", "f", "l", "m", "n", "o", "r", "t", "_", ":"}

\* Number of leading name characters of s.
NameEnd(s) ==
    CHOOSE i \in 0..Len(s) :
        /\ \A j \in 1..i : s[j] \in NameChars
        /\ (i = Len(s) \/ s[i + 1] \notin NameChars)

\* The operator that starts right after position i, or "" if there is none.
OpAt(s, i) ==
    IF i + 2 <= Len(s) /\ s[i + 1] = "=" /\ s[i + 2] = "~" THEN "=~"
    ELSE IF i + 1 <= Len(s) /\ s[i + 1] = "=" THEN "="
    ELSE IF i + 2 <= Len(s) /\ s[i + 1] = "!" /\ s[i + 2] = "=" THEN "!="
    ELSE IF i + 2 <= Len(s) /\ s[i + 1] = "!" /\ s[i + 2] = "~" THEN "!~"
    ELSE ""

MatchTypeOf(op) ==
    CASE op = "="  -> "MatchEqual"
      [] op = "!=" -> "MatchNotEqual"
      [] op = "=~" -> "MatchRegexp"
      [] op = "!~" -> "MatchNotRegexp"

\* The value of a matcher: an optional leading quote is dropped, escapes are
\* resolved, and a double quote anywhere but as the closing quote is an error.
RECURSIVE Unescape(_, _, _, _, _)
Unescape(raw, i, escaped, expectTrailingQuote, acc) ==
    IF i > Len(raw)
    THEN [ok |-> ~expectTrailingQuote, value |-> acc]
    ELSE LET r == raw[i] IN
        IF escaped
        THEN Unescape(raw, i + 1, FALSE, expectTrailingQuote,
                      IF r \in {QUOTE, BACKSLASH} THEN Append(acc, r)
                      ELSE IF r = "n" THEN Append(acc, "\n")
                      ELSE acc \o <<BACKSLASH, r>>)
        ELSE IF r = BACKSLASH
        THEN IF i < Len(raw)
             THEN Unescape(raw, i + 1, TRUE, expectTrailingQuote, acc)
             ELSE Unescape(raw, i + 1, FALSE, expectTrailingQuote, Append(acc, BACKSLASH))
        ELSE IF r = QUOTE
        THEN IF ~expectTrailingQuote \/ i < Len(raw)
             THEN [ok |-> FALSE, value |-> <<>>]
             ELSE Unescape(raw, i + 1, FALSE, FALSE, acc)
        ELSE Unescape(raw, i + 1, FALSE, expectTrailingQuote, Append(acc, r))

NoMatcher == [Name |-> <<>>, Type |-> "MatchEqual", Value |-> <<>>]

ParseMatcher(s) ==
    LET n == NameEnd(s)
        op == OpAt(s, n)
        raw == SubSeq(s, n + Len(op) + 1, Len(s))
        quoted == Len(raw) > 0 /\ raw[1] = QUOTE
        v == Unescape(IF quoted THEN Tail(raw) ELSE raw, 1, FALSE, quoted, <<>>)
    IN  IF n = 0 \/ op = "" \/ ~v.ok
        THEN [ok |-> FALSE, m |-> NoMatcher]
        ELSE [ok |-> TRUE,
              m |-> [Name |-> SubSeq(s, 1, n), Type |-> MatchTypeOf(op), Value |-> v.value]]

\* strconv.Quote: the string in double quotes, with " and \ escaped.
RECURSIVE Escape(_)
Escape(s) ==
    IF s = <<>> THEN <<>>
    ELSE (IF Head(s) \in {QUOTE, BACKSLASH} THEN <<BACKSLASH, Head(s)>>
          ELSE IF Head(s) = "\n" THEN <<BACKSLASH, "n">>
          ELSE <<Head(s)>>) \o Escape(Tail(s))

Quote(s) == <<QUOTE>> \o Escape(s) \o <<QUOTE>>

AlertnameEq == <<"a", "l", "e", "r", "t", "n", "a", "m", "e", "=">>

(***************************************************************************)
(* Lines 105-125 of add: the bare-alert-name fallback on the first         *)
(* argument, then the parse of every argument, in order.                   *)
(***************************************************************************)
\* Mutant of RewriteFirst: every argument that does not parse is rewritten.
RewriteEvery(ms) ==
    [i \in 1..Len(ms) |->
        IF ParseMatcher(ms[i]).ok THEN ms[i] ELSE AlertnameEq \o Quote(ms[i])]

RewriteFirst(ms) ==
    IF Len(ms) > 0 /\ ~ParseMatcher(ms[1]).ok
    THEN [ms EXCEPT ![1] = AlertnameEq \o Quote(ms[1])]
    ELSE ms

\* The matchers parsed from ms, or the error of the first argument that fails.
ParseMatchers(ms) ==
    LET bad == {i \in 1..Len(ms) : ~ParseMatcher(ms[i]).ok}
    IN  IF bad # {}
        THEN [err |-> "matcher parse error", matchers |-> <<>>]
        ELSE IF Len(ms) < 1
        THEN [err |-> "no matchers specified", matchers |-> <<>>]
        ELSE [err |-> "nil", matchers |-> [i \in 1..Len(ms) |-> ParseMatcher(ms[i]).m]]

(***************************************************************************)
(* time.Parse(time.RFC3339, s) and model.ParseDuration(s).                 *)
(***************************************************************************)
ParseTime(s) ==
    IF Len(s) = 2
    THEN [ok |-> TRUE, t |-> s[1] - s[2]]
    ELSE [ok |-> FALSE, t |-> 0]

Units == {"ms", "s", "m", "h", "d", "w", "y"}

UnitMs(u) ==
    CASE u = "ms" -> 1
      [] u = "s"  -> 1000
      [] u = "m"  -> 60 * 1000
      [] u = "h"  -> 60 * 60 * 1000
      [] u = "d"  -> 24 * 60 * 60 * 1000
      [] u = "w"  -> 7 * 24 * 60 * 60 * 1000
      [] u = "y"  -> 365 * 24 * 60 * 60 * 1000
      [] OTHER    -> 0

\* "" is an error, the bare "0" is zero, "<n><unit>" is n units; the zero
\* Duration comes back with every error.
ParseDuration(s) ==
    IF Len(s) # 2 THEN [ok |-> FALSE, d |-> 0]
    ELSE IF s[2] = "" THEN [ok |-> s[1] = 0, d |-> 0]
    ELSE IF s[2] \in Units THEN [ok |-> TRUE, d |-> s[1] * UnitMs(s[2])]
    ELSE [ok |-> FALSE, d |-> 0]

(***************************************************************************)
(* Lines 127-166 of add: the window of the silence.                        *)
(***************************************************************************)
\* Lines 127-136.
ResolveStart(start, now) ==
    IF start # <<>>
    THEN IF ParseTime(start).ok
         THEN [err |-> "nil", t |-> ParseTime(start).t]
         ELSE [err |-> "time parse error", t |-> 0]
    ELSE [err |-> "nil", t |-> now]

\* Mutant of ExceedsMax: the maximum is never enforced.
ExceedsMaxNever(d, maxDuration) == FALSE

\* Line 155: the duration against the maximum, whose parse error is dropped.
ExceedsMax(d, maxDuration) == d > ParseDuration(maxDuration).d

\* Mutant of ResolveEnd: the duration is checked before --end is looked at.
ResolveEndChecksDurationFirst(end, duration, maxDuration, startsAt) ==
    LET d == ParseDuration(duration)
    IN  IF ~d.ok THEN [err |-> "duration parse error", t |-> 0]
        ELSE IF d.d = 0
        THEN [err |-> "silence duration must be greater than 0", t |-> 0]
        ELSE IF ExceedsMax(d.d, maxDuration)
        THEN [err |-> "silence duration couldn't be greater than max", t |-> 0]
        ELSE IF end = <<>> THEN [err |-> "nil", t |-> startsAt + d.d]
        ELSE IF ParseTime(end).ok THEN [err |-> "nil", t |-> ParseTime(end).t]
        ELSE [err |-> "time parse error", t |-> 0]

\* Lines 138-158.
ResolveEnd(end, duration, maxDuration, startsAt) ==
    IF end # <<>>
    THEN IF ParseTime(end).ok
         THEN [err |-> "nil", t |-> ParseTime(end).t]
         ELSE [err |-> "time parse error", t |-> 0]
    ELSE LET d == ParseDuration(duration)
         IN  IF ~d.ok THEN [err |-> "duration parse error", t |-> 0]
             ELSE IF d.d = 0
             THEN [err |-> "silence duration must be greater than 0", t |-> 0]
             ELSE IF ExceedsMax(d.d, maxDuration)
             THEN [err |-> "silence duration couldn't be greater than max", t |-> 0]
             ELSE [err |-> "nil", t |-> startsAt + d.d]

\* Mutant of After: the order of the window is not checked.
AfterNever(startsAt, endsAt) == FALSE

\* Line 160.
After(startsAt, endsAt) == startsAt > endsAt

\* Lines 127-166: the error, or "nil" and the two instants.
Window(start, end, duration, maxDuration, requireComment, comment, now) ==
    LET s == ResolveStart(start, now)
        e == ResolveEnd(end, duration, maxDuration, s.t)
        Fail(msg) == [err |-> msg, startsAt |-> 0, endsAt |-> 0]
    IN  IF s.err # "nil" THEN Fail(s.err)
        ELSE IF e.err # "nil" THEN Fail(e.err)
        ELSE IF After(s.t, e.t) THEN Fail("silence cannot start after it ends")
        ELSE IF requireComment /\ comment = ""
        THEN Fail("comment required by config")
        ELSE [err |-> "nil", startsAt |-> s.t, endsAt |-> e.t]

(***************************************************************************)
(* TypeMatcher, TypeMatchers: the parsed matcher as the API's matcher.     *)
(***************************************************************************)
\* Mutant of TypeMatcher: IsEqual is true of "=" alone.
TypeMatcherEqualOnly(matcher) ==
    [Name    |-> matcher.Name,
     Value   |-> matcher.Value,
     IsEqual |-> matcher.Type = "MatchEqual",
     IsRegex |-> (matcher.Type = "MatchRegexp") \/ (matcher.Type = "MatchNotRegexp")]

TypeMatcher(matcher) ==
    [Name    |-> matcher.Name,
     Value   |-> matcher.Value,
     IsEqual |-> (matcher.Type = "MatchEqual") \/ (matcher.Type = "MatchRegexp"),
     IsRegex |-> (matcher.Type = "MatchRegexp") \/ (matcher.Type = "MatchNotRegexp")]

TypeMatchers(matchers) == [i \in 1..Len(matchers) |-> TypeMatcher(matchers[i])]

\* Lines 168-178: the PostableSilence.
PostableSilence(matchers, startsAt, endsAt, author, comment) ==
    [Matchers  |-> TypeMatchers(matchers),
     StartsAt  |-> startsAt,
     EndsAt    |-> endsAt,
     CreatedBy |-> author,
     Comment   |-> comment]

NoSilence ==
    [Matchers |-> <<>>, StartsAt |-> 0, EndsAt |-> 0, CreatedBy |-> "", Comment |-> ""]

(***************************************************************************)
(* The state of one invocation of `atm silence add`.                       *)
(***************************************************************************)
VARIABLES
    argv,       \* the matcher arguments as typed
    c,          \* the silenceAddCmd: flags and arguments
    now,        \* what time.Now() returns at line 135
    pc,         \* where add is: start, single, readfile, loop, none, done
    ps,         \* the PostableSilence built at lines 168-178
    header,     \* the tenant header of httpConfig: [set, value]
    tenants,    \* the lines read from the tenant file
    idx,        \* the position of the loop of line 203 in tenants
    posts,      \* the calls of PostSilences so far: [header, silence, ok,
                \* ctxDone: the deadline of ctx had passed when it returned]
    expired,    \* whether the deadline of ctx (execWithTimeout) has passed
    err         \* the error add ends with, "nil" for none

vars == <<argv, c, now, pc, ps, header, tenants, idx, posts, expired, err>>

Hour == 60 * 60 * 1000
Minute == 60 * 1000

MatcherArgs ==
    { <<"f", QUOTE>>,
      <<"a", "=", "b">>,
      <<"a", "=", "~", "b">>,
      <<"n", "!", "=", "b">>,
      <<"n", "!", "~", "b">> }

\* What is tried after the first argument: a bare word and two matchers.
LaterArgs ==
    { <<"f", QUOTE>>,
      <<"n", "!", "=", "b">>,
      <<"n", "!", "~", "b">> }

RECURSIVE SeqsUpTo(_, _)
SeqsUpTo(S, n) ==
    IF n = 0 THEN {<<>>}
    ELSE LET shorter == SeqsUpTo(S, n - 1)
         IN  shorter \cup {Append(q, x) : q \in {r \in shorter : Len(r) = n - 1}, x \in S}

\* Argument lists: none, or any first argument followed by later ones.
ArgLists ==
    {<<>>} \cup
    {<<first>> \o rest : first \in MatcherArgs,
                         rest \in IF MaxMatchers = 0 THEN {<<>>}
                                   ELSE SeqsUpTo(LaterArgs, MaxMatchers - 1)}

StartArgs == { <<>>, <<7>>, <<2 * Hour, 0>> }
EndArgs == { <<>>, <<7>>, <<3 * Hour, 2 * Hour>>, <<4 * Hour, 2 * Hour>>, <<30 * Hour, 0>> }
DurationArgs == { <<1, "x">>, <<0, "">>, <<10, "m">>, <<13, "h">> }
MaxDurationArgs == { <<12, "h">>, <<1, "x">> }
NowValues == { 90 * Minute }
CommentArgs == { <<TRUE, "">>, <<TRUE, "x">>, <<FALSE, "">> }
TenantNames == {"a", "b"}

\* Tenant files: up to MaxTenants lines, no line repeating the one before.
TenantFiles ==
    {f \in SeqsUpTo(TenantNames, MaxTenants) :
        \A k \in 1..(Len(f) - 1) : f[k] # f[k + 1]}

NoHeader == [set |-> FALSE, value |-> ""]

Init ==
    /\ argv \in ArgLists
    /\ \E start \in StartArgs, end \in EndArgs,
          duration \in DurationArgs, maxDuration \in MaxDurationArgs,
          rc \in CommentArgs,
          tenant \in {"", "t"}, tenantFile \in {"", "tenants.conf"} :
            c = [author |-> "u", requireComment |-> rc[1],
                 duration |-> duration, maxDuration |-> maxDuration,
                 start |-> start, end |-> end, comment |-> rc[2],
                 matchers |-> argv, tenant |-> tenant, tenantFile |-> tenantFile,
                 tenantHTTPHeader |-> "X-Scope-OrgID"]
    /\ now \in NowValues
    /\ pc = "start"
    /\ ps = NoSilence
    /\ header = NoHeader
    /\ tenants = <<>>
    /\ idx = 1
    /\ posts = <<>>
    /\ expired = FALSE
    /\ err = "nil"

\* Lines 105-166: the first error of matcher parsing and window resolution,
\* "nil" when the silence can be built.
ValidationError(cmd, t) ==
    LET p == ParseMatchers(RewriteFirst(cmd.matchers))
        w == Window(cmd.start, cmd.end, cmd.duration, cmd.maxDuration,
                    cmd.requireComment, cmd.comment, t)
    IN  IF p.err # "nil" THEN p.err ELSE w.err

\* Lines 168-178, for a command that ValidationError lets through.
BuildSilence(cmd, t) ==
    LET p == ParseMatchers(RewriteFirst(cmd.matchers))
        w == Window(cmd.start, cmd.end, cmd.duration, cmd.maxDuration,
                    cmd.requireComment, cmd.comment, t)
    IN  PostableSilence(p.matchers, w.startsAt, w.endsAt, cmd.author, cmd.comment)

\* Mutant of Conflict: the check of line 181 is missing.
ConflictIgnored(cmd) == FALSE

\* Line 181.
Conflict(cmd) == cmd.tenant # "" /\ cmd.tenantFile # ""

\* Lines 186, 196, 215: the branch add takes.
Branch(cmd) ==
    IF cmd.tenant # "" THEN "single"
    ELSE IF cmd.tenantFile # "" THEN "readfile"
    ELSE "none"

\* Mutant of Validate: a missing comment is reported but add carries on.
ValidateCarriesOn ==
    /\ pc = "start"
    /\ c' = [c EXCEPT !.matchers = RewriteFirst(c.matchers)]
    /\ err' = ValidationError(c, now)
    /\ IF ValidationError(c, now) \notin {"nil", "comment required by config"}
       THEN /\ pc' = "done"
            /\ ps' = ps
       ELSE /\ ps' = BuildSilence(c, now)
            /\ pc' = IF Conflict(c) THEN "done" ELSE Branch(c)
    /\ UNCHANGED <<argv, now, header, tenants, idx, posts, expired>>

\* Lines 102-185: everything add does before it talks to the network.
Validate ==
    /\ pc = "start"
    /\ c' = [c EXCEPT !.matchers = RewriteFirst(c.matchers)]
    /\ IF ValidationError(c, now) # "nil"
       THEN /\ err' = ValidationError(c, now)
            /\ pc' = "done"
            /\ ps' = ps
       ELSE /\ ps' = BuildSilence(c, now)
            /\ IF Conflict(c)
               THEN /\ err' = "tenant and tenant.file are mutually exclusive"
                    /\ pc' = "done"
               ELSE /\ err' = err
                    /\ pc' = Branch(c)
    /\ UNCHANGED <<argv, now, header, tenants, idx, posts, expired>>

\* PostSilences(silenceParams) with the header as it is now: the call fails
\* once the deadline of ctx has passed, and may fail before.
Outcomes == IF expired THEN {FALSE} ELSE BOOLEAN

\* setHTTPTenantHeader, lines 246-257.
setHTTPTenantHeader(tenant) == [set |-> TRUE, value |-> tenant]

\* Lines 186-195.
PostSingleTenant ==
    /\ pc = "single"
    /\ \E ok \in Outcomes :
        /\ header' = setHTTPTenantHeader(c.tenant)
        /\ posts' = Append(posts, [header |-> header', silence |-> ps, ok |-> ok,
                              ctxDone |-> expired])
        /\ err' = IF ok THEN "nil" ELSE "Unable to add silence for tenant"
    /\ pc' = "done"
    /\ UNCHANGED <<argv, c, now, ps, tenants, idx, expired>>

\* Lines 198-201 and readTenantFromFile, lines 228-244.
ReadTenantFile ==
    /\ pc = "readfile"
    /\ \/ /\ err' = "Unable to read tenant file"
          /\ pc' = "done"
          /\ UNCHANGED tenants
       \/ \E lines \in TenantFiles :
            /\ tenants' = lines
            /\ pc' = IF Len(lines) = 0 THEN "done" ELSE "loop"
            /\ UNCHANGED err
    /\ UNCHANGED <<argv, c, now, ps, header, idx, posts, expired>>

\* Mutant of PostFileTenant: a failed post ends the loop.
PostFileTenantStopsOnFailure ==
    /\ pc = "loop"
    /\ \E ok \in Outcomes :
        /\ header' = setHTTPTenantHeader(tenants[idx])
        /\ posts' = Append(posts, [header |-> header', silence |-> ps, ok |-> ok,
                              ctxDone |-> expired])
        /\ pc' = IF ~ok \/ idx + 1 > Len(tenants) THEN "done" ELSE "loop"
    /\ idx' = idx + 1
    /\ UNCHANGED <<argv, c, now, ps, tenants, expired, err>>

\* Mutant of PostFileTenant: the loop ends with the post the deadline fails.
PostFileTenantStopsAtDeadline ==
    /\ pc = "loop"
    /\ \E ok \in Outcomes :
        /\ header' = setHTTPTenantHeader(tenants[idx])
        /\ posts' = Append(posts, [header |-> header', silence |-> ps, ok |-> ok,
                              ctxDone |-> expired])
    /\ idx' = idx + 1
    /\ pc' = IF expired \/ idx + 1 > Len(tenants) THEN "done" ELSE "loop"
    /\ UNCHANGED <<argv, c, now, ps, tenants, expired, err>>

\* Lines 203-214: one turn of the loop over the tenants.
PostFileTenant ==
    /\ pc = "loop"
    /\ \E ok \in Outcomes :
        /\ header' = setHTTPTenantHeader(tenants[idx])
        /\ posts' = Append(posts, [header |-> header', silence |-> ps, ok |-> ok,
                              ctxDone |-> expired])
    /\ idx' = idx + 1
    /\ pc' = IF idx + 1 > Len(tenants) THEN "done" ELSE "loop"
    /\ UNCHANGED <<argv, c, now, ps, tenants, expired, err>>

\* Mutant of PostNoTenant: the error of the post is printed, not returned.
PostNoTenantSwallowsError ==
    /\ pc = "none"
    /\ \E ok \in Outcomes :
        posts' = Append(posts, [header |-> header, silence |-> ps, ok |-> ok,
                              ctxDone |-> expired])
    /\ pc' = "done"
    /\ UNCHANGED <<argv, c, now, ps, header, tenants, idx, expired, err>>

\* Lines 215-224.
PostNoTenant ==
    /\ pc = "none"
    /\ \E ok \in Outcomes :
        /\ posts' = Append(posts, [header |-> header, silence |-> ps, ok |-> ok,
                              ctxDone |-> expired])
        /\ err' = IF ok THEN "nil" ELSE "Unable to add silence"
    /\ pc' = "done"
    /\ UNCHANGED <<argv, c, now, ps, header, tenants, idx, expired>>

\* The deadline set by execWithTimeout passes.  add reads ctx only through
\* PostSilences, so a deadline that passes earlier acts as one that passes
\* right before the first call.
Timeout ==
    /\ pc \in {"single", "readfile", "loop", "none"}
    /\ ~expired
    /\ expired' = TRUE
    /\ UNCHANGED <<argv, c, now, pc, ps, header, tenants, idx, posts, err>>

Next ==
    \/ Validate
    \/ PostSingleTenant
    \/ ReadTenantFile
    \/ PostFileTenant
    \/ PostNoTenant
    \/ Timeout

Spec == Init /\ [][Next]_vars

(***************************************************************************)
(* Properties.                                                             *)
(***************************************************************************)
\* The command as it was invoked (add rewrites c.matchers[0] in place).
Invoked == [c EXCEPT !.matchers = argv]

ValidationErrors ==
    { "matcher parse error", "no matchers specified", "time parse error",
      "duration parse error", "silence duration must be greater than 0",
      "silence duration couldn't be greater than max",
      "silence cannot start after it ends", "comment required by config" }

\* add got past line 183: the silence was built and the tenant flags agree.
Dispatched ==
    /\ pc # "start"
    /\ err \notin ValidationErrors
    /\ err # "tenant and tenant.file are mutually exclusive"

InFileMode == Dispatched /\ c.tenant = "" /\ c.tenantFile # ""

\* C1: in file-tenant mode the posts made so far are exactly one per tenant
\* line already visited, in file order, each with that tenant in the header,
\* whatever the earlier outcomes were; and when add returns (the file having
\* been read) every line of the file has had its one post.
C1_OnePostPerTenantInOrder ==
    InFileMode =>
        /\ pc = "readfile" => posts = <<>>
        /\ pc = "loop" =>
            /\ idx \in 1..Len(tenants)
            /\ Len(posts) = idx - 1
        /\ pc = "done" /\ err = "nil" => Len(posts) = Len(tenants)
        /\ \A k \in 1..Len(posts) :
            /\ k <= Len(tenants)
            /\ posts[k].header = [set |-> TRUE, value |-> tenants[k]]
            /\ posts[k].silence = ps

\* C1 witness: tenants a, b; the post for a failed, the post for b was made
\* and succeeded.
C1_Witness ==
    /\ InFileMode
    /\ pc = "done"
    /\ tenants = <<"a", "b">>
    /\ Len(posts) = 2
    /\ ~posts[1].ok /\ posts[1].header.value = "a"
    /\ posts[2].ok /\ posts[2].header.value = "b"

\* C2 as claimed: with both --tenant and --tenant.file the command ends with
\* the mutually-exclusive error, and nothing is ever posted.
C2_Original ==
    c.tenant # "" /\ c.tenantFile # "" =>
        /\ posts = <<>>
        /\ pc = "done" => err = "tenant and tenant.file are mutually exclusive"

\* C2 amended: with both --tenant and --tenant.file nothing is ever posted
\* and the command always fails; it fails with the mutually-exclusive error
\* exactly when matcher parsing, window resolution and the comment check
\* pass, and with the error of that earlier step otherwise.
C2_Amended ==
    c.tenant # "" /\ c.tenantFile # "" =>
        /\ posts = <<>>
        /\ pc \in {"start", "done"}
        /\ pc = "done" =>
            LET v == ValidationError(Invoked, now)
            IN  /\ err # "nil"
                /\ err = IF v = "nil"
                         THEN "tenant and tenant.file are mutually exclusive"
                         ELSE v

C2_Witness ==
    /\ c.tenant # "" /\ c.tenantFile # ""
    /\ pc = "done"
    /\ err = "tenant and tenant.file are mutually exclusive"
    /\ posts = <<>>

\* C3: a command whose matchers, start, end, duration, window or comment are
\* rejected ends with that error without a single post, whatever the tenant
\* flags are; and no run that ends with one of these errors has posted.
C3_ValidationFailureBeforeNetwork ==
    /\ err \in ValidationErrors => posts = <<>> /\ pc = "done"
    /\ LET v == ValidationError(Invoked, now)
       IN  IF v # "nil"
           THEN /\ v \in ValidationErrors
                /\ posts = <<>>
                /\ pc \in {"start", "done"}
                /\ pc = "done" => err = v
           ELSE pc # "start" => err \notin ValidationErrors

\* C3 witness: the required comment is missing in file-tenant configuration.
C3_Witness ==
    /\ pc = "done"
    /\ err = "comment required by config"
    /\ c.tenantFile # "" /\ c.tenant = ""
    /\ posts = <<>>

\* C4: in no-tenant and in single-tenant mode nothing is posted before the
\* one call, and add returns after exactly one post, with an error if and
\* only if that post failed; the post carries the tenant header set to
\* --tenant in single-tenant mode and no tenant header in no-tenant mode.
C4_SinglePostDecidesResult ==
    Dispatched /\ (c.tenant # "" \/ c.tenantFile = "") =>
        /\ pc \in {"single", "none", "done"}
        /\ pc \in {"single", "none"} => posts = <<>> /\ err = "nil"
        /\ pc = "done" =>
            /\ Len(posts) = 1
            /\ posts[1].silence = ps
            /\ (err # "nil") <=> ~posts[1].ok
            /\ posts[1].header =
                 IF c.tenant # "" THEN [set |-> TRUE, value |-> c.tenant]
                 ELSE [set |-> FALSE, value |-> ""]

\* C4 witness: the single post of single-tenant mode failed and so did add.
C4_Witness ==
    /\ Dispatched
    /\ c.tenant = "t"
    /\ pc = "done"
    /\ Len(posts) = 1
    /\ ~posts[1].ok
    /\ err = "Unable to add silence for tenant"

\* The matcher arguments parse (after the fallback on the first one).
ArgsParse == ParseMatchers(RewriteFirst(argv)).err = "nil"

StartParses == c.start = <<>> \/ ParseTime(c.start).ok

\* The instant the silence starts at: --start, or the clock.
StartInstant == IF c.start = <<>> THEN now ELSE ParseTime(c.start).t

\* C5: every silence posted has StartsAt <= EndsAt, and they are the instants
\* of the command (--start or the clock; --end when it is given), not
\* adjusted ones; a command whose --end is before its start ends with
\* "silence cannot start after it ends", whatever --duration is, and
\* neither builds nor posts a silence.
C5_StartNotAfterEnd ==
    /\ \A k \in 1..Len(posts) :
        /\ posts[k].silence.StartsAt <= posts[k].silence.EndsAt
        /\ posts[k].silence.StartsAt = StartInstant
        /\ c.end # <<>> => posts[k].silence.EndsAt = ParseTime(c.end).t
    /\ ( /\ pc # "start"
         /\ ArgsParse
         /\ StartParses
         /\ c.end # <<>>
         /\ ParseTime(c.end).ok
         /\ StartInstant > ParseTime(c.end).t )
       => /\ pc = "done"
          /\ err = "silence cannot start after it ends"
          /\ ps = NoSilence
          /\ posts = <<>>

\* C5 witness: --end is before --start (its local time is later, its offset
\* makes it earlier), --duration is fine, and the command was rejected.
C5_Witness ==
    /\ pc = "done"
    /\ c.start = <<2 * Hour, 0>>
    /\ c.end = <<3 * Hour, 2 * Hour>>
    /\ c.duration = <<10, "m">>
    /\ c.maxDuration = <<12, "h">>
    /\ err = "silence cannot start after it ends"
    /\ posts = <<>>

\* C6: without --end, add gets to the posts only if --duration parses, is
\* not zero and is at most the parsed --max-duration, and the silence then
\* lasts exactly the duration: 10m under a maximum of 12h is a window of
\* 600000 ms, 13h under a maximum of 12h ends with the greater-than error.
C6_DurationWindow ==
    c.end = <<>> =>
        /\ Dispatched =>
            LET d == ParseDuration(c.duration)
                md == ParseDuration(c.maxDuration)
            IN  /\ d.ok /\ d.d # 0
                /\ md.ok /\ d.d <= md.d
                /\ ps.EndsAt - ps.StartsAt = d.d
                /\ \A k \in 1..Len(posts) : posts[k].silence = ps
        /\ ( /\ Dispatched
             /\ c.duration = <<10, "m">> )
           => ps.EndsAt - ps.StartsAt = 600000
        /\ ( /\ pc # "start"
             /\ ArgsParse /\ StartParses
             /\ c.duration = <<13, "h">> /\ c.maxDuration = <<12, "h">> )
           => /\ pc = "done"
              /\ err = "silence duration couldn't be greater than max"
              /\ posts = <<>>

\* C6 witness: 10m under 12h was posted with a window of ten minutes.
C6_Witness ==
    /\ c.end = <<>>
    /\ c.duration = <<10, "m">>
    /\ c.maxDuration = <<12, "h">>
    /\ Len(posts) > 0
    /\ posts[1].silence.EndsAt - posts[1].silence.StartsAt = 600000

\* C7 as claimed: without --end, when --max-duration does not parse there is
\* no limit: a --duration that parses and is not zero is never refused with
\* the greater-than error.
C7_UnparsableMaxIsNoLimit ==
    ( /\ pc = "done"
      /\ c.end = <<>>
      /\ ~ParseDuration(c.maxDuration).ok
      /\ ParseDuration(c.duration).ok
      /\ ParseDuration(c.duration).d # 0 )
    => err # "silence duration couldn't be greater than max"

\* What the window resolves to when --end is given, from --start, --end,
\* require-comment and --comment (and the clock when --start is absent).
ExplicitEndOutcome ==
    IF ~StartParses \/ ~ParseTime(c.end).ok THEN "time parse error"
    ELSE IF StartInstant > ParseTime(c.end).t THEN "silence cannot start after it ends"
    ELSE IF c.requireComment /\ c.comment = "" THEN "comment required by config"
    ELSE "nil"

\* C8: with --end given, the result of window resolution is what --start,
\* --end, require-comment and --comment alone decide, for every --duration
\* and --max-duration (unparsable, zero, above the maximum), also when the
\* window is longer than the maximum; EndsAt is the parsed --end.
C8_ExplicitEndSkipsDurationChecks ==
    (c.end # <<>> /\ pc # "start" /\ ArgsParse) =>
        IF ExplicitEndOutcome # "nil"
        THEN /\ pc = "done"
             /\ err = ExplicitEndOutcome
             /\ ps = NoSilence
        ELSE /\ err \notin ValidationErrors
             /\ ps.StartsAt = StartInstant
             /\ ps.EndsAt = ParseTime(c.end).t

\* C8 witness: a window of 28h was posted although --duration does not parse
\* and the maximum is 12h.
C8_Witness ==
    /\ c.start = <<2 * Hour, 0>>
    /\ c.end = <<30 * Hour, 0>>
    /\ c.duration = <<1, "x">>
    /\ c.maxDuration = <<12, "h">>
    /\ Len(posts) > 0
    /\ posts[1].silence.EndsAt - posts[1].silence.StartsAt = 28 * Hour

Alertname == <<"a", "l", "e", "r", "t", "n", "a", "m", "e">>

\* C9: only the first argument is ever rewritten; a first argument that does
\* not parse becomes alertname="<quoted argument>", which parses to the
\* matcher alertname = <argument>, and parsing goes on; an argument after the
\* first that does not parse is left as typed and ends the command with the
\* matcher parse error; the matchers of the silence are those of the
\* arguments, in the order they were typed.
C9_FirstArgumentFallback ==
    pc # "start" =>
        /\ Len(c.matchers) = Len(argv)
        /\ \A i \in 2..Len(argv) : c.matchers[i] = argv[i]
        /\ (err = "matcher parse error")
             <=> (\E i \in 2..Len(argv) : ~ParseMatcher(argv[i]).ok)
        /\ err = "matcher parse error" => pc = "done" /\ posts = <<>> /\ ps = NoSilence
        /\ Len(argv) > 0 =>
            IF ParseMatcher(argv[1]).ok
            THEN c.matchers[1] = argv[1]
            ELSE /\ c.matchers[1] = Alertname \o <<"=", QUOTE>> \o Escape(argv[1]) \o <<QUOTE>>
                 /\ argv[1] = <<"f", QUOTE>>
                      => c.matchers[1] = Alertname \o <<"=", QUOTE, "f", BACKSLASH, QUOTE, QUOTE>>
                 /\ ParseMatcher(c.matchers[1]) =
                      [ok |-> TRUE,
                       m |-> [Name |-> Alertname, Type |-> "MatchEqual", Value |-> argv[1]]]
        /\ ps # NoSilence =>
            /\ Len(ps.Matchers) = Len(argv)
            /\ \A i \in 1..Len(argv) :
                IF ParseMatcher(argv[i]).ok
                THEN /\ ps.Matchers[i].Name = ParseMatcher(argv[i]).m.Name
                     /\ ps.Matchers[i].Value = ParseMatcher(argv[i]).m.Value
                ELSE /\ i = 1
                     /\ ps.Matchers[i] =
                          [Name |-> Alertname, Value |-> argv[1],
                           IsEqual |-> TRUE, IsRegex |-> FALSE]

\* C9 witness: a bare first argument followed by a matcher was posted as
\* alertname = <argument> followed by that matcher.
C9_Witness ==
    /\ argv = << <<"f", QUOTE>>, <<"n", "!", "=", "b">> >>
    /\ Len(posts) > 0
    /\ posts[1].silence.Matchers[1].Name = Alertname
    /\ posts[1].silence.Matchers[1].Value = <<"f", QUOTE>>
    /\ posts[1].silence.Matchers[2].Name = <<"n">>

MatchTypes == {"MatchEqual", "MatchNotEqual", "MatchRegexp", "MatchNotRegexp"}

\* The (isEqual, isRegex) pair of each operator.
FlagsOfOp(op) ==
    CASE op = "="  -> <<TRUE, FALSE>>
      [] op = "=~" -> <<TRUE, TRUE>>
      [] op = "!=" -> <<FALSE, FALSE>>
      [] op = "!~" -> <<FALSE, TRUE>>

\* C10: TypeMatcher gives = (true,false), =~ (true,true), != (false,false),
\* !~ (false,true), four different pairs, and keeps name and value; the
\* matchers of a built silence are those of the arguments, each with the
\* pair of its operator, its name and its value, in the same order.
C10_TypeMatcherMapping ==
    /\ \A op \in {"=", "=~", "!=", "!~"} :
        LET m == [Name |-> <<"a">>, Type |-> MatchTypeOf(op), Value |-> <<"b">>]
            t == TypeMatcher(m)
        IN  /\ <<t.IsEqual, t.IsRegex>> = FlagsOfOp(op)
            /\ t.Name = m.Name /\ t.Value = m.Value
    /\ \A t1, t2 \in MatchTypes :
        LET a == TypeMatcher([Name |-> <<"a">>, Type |-> t1, Value |-> <<"b">>])
            b == TypeMatcher([Name |-> <<"a">>, Type |-> t2, Value |-> <<"b">>])
        IN  t1 # t2 => <<a.IsEqual, a.IsRegex>> # <<b.IsEqual, b.IsRegex>>
    /\ ps # NoSilence =>
        /\ Len(ps.Matchers) = Len(c.matchers)
        /\ \A i \in 1..Len(c.matchers) :
            LET s == c.matchers[i]
                op == OpAt(s, NameEnd(s))
                m == ParseMatcher(s).m
            IN  ps.Matchers[i] =
                  [Name |-> m.Name, Value |-> m.Value,
                   IsEqual |-> FlagsOfOp(op)[1], IsRegex |-> FlagsOfOp(op)[2]]

\* C10 witness: a silence with a =~ matcher and a !~ matcher was posted.
C10_Witness ==
    /\ Len(posts) > 0
    /\ Len(posts[1].silence.Matchers) = 2
    /\ posts[1].silence.Matchers[1] =
         [Name |-> <<"a">>, Value |-> <<"b">>, IsEqual |-> TRUE, IsRegex |-> TRUE]
    /\ posts[1].silence.Matchers[2] =
         [Name |-> <<"n">>, Value |-> <<"b">>, IsEqual |-> FALSE, IsRegex |-> TRUE]

\* The posts that returned with the deadline of ctx passed.
LatePosts == {k \in 1..Len(posts) : posts[k].ctxDone}

\* C11 as claimed: the posts share one deadline, and in file-tenant mode the
\* post the deadline fails is the last one: no post is made for a later
\* tenant of the file.
C11_Original ==
    /\ \A k \in LatePosts : ~posts[k].ok
    /\ InFileMode => Cardinality(LatePosts) <= 1

\* C11 amended: the posts share one deadline: once it has passed, the post
\* in flight and every later post fail; in file-tenant mode the loop goes on
\* all the same, so that every remaining tenant of the file still gets its
\* one post (which fails), and add returns only after the last line.
C11_Amended ==
    /\ \A k \in LatePosts :
        /\ ~posts[k].ok
        /\ expired
        /\ \A j \in k..Len(posts) : j \in LatePosts
    /\ InFileMode =>
        /\ (pc = "done" /\ err = "nil") => Len(posts) = Len(tenants)
        /\ (pc = "loop" /\ expired) => Len(posts) < Len(tenants)
        /\ \A k \in LatePosts : posts[k].header.value = tenants[k]

\* C11 witness: the deadline passed before the post for a; the post for b
\* was made after it all the same, and failed too.
C11_Witness ==
    /\ InFileMode
    /\ pc = "done"
    /\ tenants = <<"a", "b">>
    /\ Len(posts) = 2
    /\ posts[1].ctxDone /\ ~posts[1].ok /\ posts[1].header.value = "a"
    /\ posts[2].ctxDone /\ ~posts[2].ok /\ posts[2].header.value = "b"

====
